---- MODULE Spec2Model ----
(***************************************************************************)
(* Auto-signing payment strategy dispatcher of MCPay                       *)
(* (src/app/src/lib/gateway/payment-strategies/index.ts).                  *)
(*                                                                         *)
(* One orchestration call is modelled: attemptAutoSign arms the timeout    *)
(* timer and starts performAutoSigning, whose promise it races against     *)
(* the timer.  performAutoSigning keeps running after the race has been    *)
(* settled by the timer, exactly as the JavaScript does.  Every step       *)
(* between two macrotask suspension points (an awaited strategy call or a  *)
(* backoff sleep) is one action.  The timer delay and the duration of      *)
(* each strategy call are arbitrary, so the timer may fire at any such     *)
(* suspension point.                                                       *)
(*                                                                         *)
(* logWithLevel (lines 68-82) reads the configuration again on every log   *)
(* line and writes to the console; of it the model keeps the level the     *)
(* latest log line was compared with.  The registry is modelled as the     *)
(* list of strategy classes getSigningStrategies constructs; the behaviour *)
(* of a strategy (its canSign and signPayment) is the implementation's and *)
(* is chosen from all answers the PaymentSigningStrategy interface allows. *)
(*                                                                         *)
(* Spec is one call over every strategy list; RegistrySpec adds the        *)
(* runtime mode and constructors that throw; LiveSpec adds the fairness of *)
(* the event loop; ConcurrentSpec interleaves two calls; ConfigSpec lets   *)
(* the process configuration change during a call; TwinSpec runs the same  *)
(* call twice; RetrySpec allows retry bounds below one.                    *)
(*                                                                         *)
(* The wallet and pricing transactions of db/actions.ts are modelled over  *)
(* the rows of their tables, one transaction per action (WalletSpec,       *)
(* PricingSpec).                                                           *)
(***************************************************************************)
EXTENDS Integers, Sequences, FiniteSets, TLC

\* ------------------------------------------------------------------ bounds
MaxStrategies == 3
MaxRetriesBound == 2

\* ------------------------------------------------------------ value space
Absent == "undefined"

Priorities == {10, 30, 50}
StrategyNames == <<"A", "B", "C", "D">>

FallbackBehaviors == {"fail", "log_only", "continue", "other"}

SupportedNetworks == {"base-sepolia"}

NoUser == [id |-> Absent]
Users == {[id |-> "user-1"]}

Payment(network, payTo) ==
    [maxAmountRequired |-> "100000", network |-> network, asset |-> "0xASSET",
     payTo |-> payTo, resource |-> "mcpay://tool", description |-> "tool call"]

ToolCalls ==
    { [isPaid |-> TRUE, payment |-> Payment("base-sepolia", "0xPAYEE")],
      [isPaid |-> TRUE, payment |-> Payment("base-sepolia", Absent)],
      [isPaid |-> TRUE, payment |-> Payment("base-sepolia", "")],
      [isPaid |-> TRUE, payment |-> Payment("bogus-net", "0xPAYEE")] }

\* config.logging: the level, the detail flags being off
Logging(level) == [level |-> level]

PaymentStrategyConfig ==
    [enabled : BOOLEAN, maxRetries : 0..MaxRetriesBound,
     fallbackBehavior : FallbackBehaviors, logging : {Logging("info")}]

NoConfig == [enabled |-> FALSE, maxRetries |-> 0, fallbackBehavior |-> "continue",
             logging |-> Logging("info")]

\* PaymentSigningResult; a missing optional field is Absent
PaymentSigningResult(success, error, strategy, header, wallet) ==
    [success |-> success, error |-> error, strategy |-> strategy,
     signedPaymentHeader |-> header, walletAddress |-> wallet]

Failure(error) == PaymentSigningResult(FALSE, error, Absent, Absent, Absent)

NoResult == PaymentSigningResult(FALSE, Absent, Absent, Absent, Absent)

\* an Error object
Error(message) == [isError |-> TRUE, message |-> message]

\* ---------------------------------------------------------- the strategies
\* A PaymentSigningStrategy has a name, a priority and two asynchronous
\* methods.  What the methods answer is the implementation's business:
\* "free" answers anything on every call, "declines" always answers
\* canSign = false, "signs" always answers canSign = true and signs, "fails"
\* always answers canSign = true and returns a failure from signPayment.
Strategy(i, priority, behaviour) ==
    [name |-> StrategyNames[i], priority |-> priority, behaviour |-> behaviour,
     testOnly |-> FALSE, constructs |-> TRUE]

FreeLists ==
    UNION { { [i \in 1..n |-> Strategy(i, p[i], "free")] :
                p \in [1..n -> Priorities] } : n \in 0..MaxStrategies }

OneSignerLists ==
    UNION { { [i \in 1..n |-> Strategy(i, p[i], IF i = x THEN "signs" ELSE "declines")] :
                p \in [1..n -> Priorities], x \in 1..n } : n \in 1..MaxStrategies }

Registries == FreeLists \cup OneSignerLists

SuccessResults ==
    { PaymentSigningResult(TRUE, Absent, Absent, "x402-header", "0xWALLET"),
      PaymentSigningResult(TRUE, "provider warning", "self-reported",
                           "x402-header", "0xWALLET") }

CleanSuccess == PaymentSigningResult(TRUE, Absent, Absent, "x402-header", "0xWALLET")

FailureResults == { Failure("signing failed") }

Returns(value) == [kind |-> "returns", value |-> value]
Throws == [kind |-> "throws", value |-> NoResult]

\* the settled values of strategy.canSign(context)
CanSignAnswers(strategy) ==
    CASE strategy.behaviour = "declines" -> {"false"}
      [] strategy.behaviour = "signs"    -> {"true"}
      [] strategy.behaviour = "fails"    -> {"true"}
      [] OTHER                           -> {"true", "false", "throws"}

\* the settled values of strategy.signPayment(context)
SignPaymentAnswers(strategy) ==
    CASE strategy.behaviour = "signs" -> { Returns(CleanSuccess) }
      [] strategy.behaviour = "fails" -> { Returns(r) : r \in FailureResults }
      [] OTHER -> { Returns(r) : r \in SuccessResults \cup FailureResults }
                    \cup { Throws }

NoContext == [toolCall |-> [isPaid |-> FALSE, payment |-> Payment(Absent, Absent)],
              user |-> NoUser, paymentRequirements |-> <<>>]

NoCall == [toolCall |-> NoContext.toolCall, user |-> NoUser]

VARIABLES
    processConfig,     \* what getConfig() returns (process-wide policy)
    isTest,            \* what isTest() returns (the runtime mode)
    registry,          \* the strategy classes getSigningStrategies knows
    call,              \* the arguments attemptAutoSign was called with
    status,            \* attemptAutoSign: "idle", "racing", "returned", "rejected"
    config,            \* attemptAutoSign's local const config
    timer,             \* the setTimeout of line 110: "unset", "armed", "fired"
    ret,               \* the PaymentSigningResult attemptAutoSign resolved with
    via,               \* which return statement produced ret
    returns,           \* number of values attemptAutoSign's promise received
    context,           \* performAutoSigning's PaymentSigningContext
    built,             \* calls of createExactPaymentRequirements
    consulted,         \* calls of getSigningStrategies
    sortedStrategies,  \* performAutoSigning's sortedStrategies
    pc,                \* performAutoSigning's suspension point
    idx,               \* index of `strategy` in sortedStrategies
    attempt,           \* the retry loop's attempt
    order,             \* names of the strategies in order of their first canSign call
    signCalls,         \* signPayment calls made on the current strategy
    clean,             \* the current strategy answered canSign = true and failed signPayment every time so far
    failedOnly,        \* name -> signPayment calls, for each strategy left behind while clean
    signingResult,     \* what performAutoSigning's promise resolved with
    signed,            \* successful results strategies have handed back
    pending,           \* strategy calls whose promise has not been awaited to its end
    backoffMs,         \* delay of the backoff sleep in progress, 0 when none
    other,             \* the locals of a second orchestration call, while it is not running
    logThreshold,      \* the logging level the latest logWithLevel call compared with
    userWallets,       \* the rows of the user_wallets table, in order of creation
    mcpTools,          \* the rows of the mcp_tools table, by tool id
    toolPricing,       \* the rows of the tool_pricing table, in order of creation
    dbResult           \* how the latest database transaction ended

vars == <<processConfig, isTest, registry, call, status, config, timer, ret, via,
          returns, context, built, consulted, sortedStrategies, pc, idx, attempt,
          order, signCalls, clean, failedOnly, signingResult, signed, pending,
          backoffMs, other, logThreshold, userWallets, mcpTools, toolPricing,
          dbResult>>

dbVars == <<userWallets, mcpTools, toolPricing, dbResult>>
outerVars == <<status, ret, via, returns>>
moduleVars == <<processConfig, isTest, registry>>
envVars == <<processConfig, isTest, registry, other, dbVars>>
callVars == <<call, config>>
loopVars == <<idx, attempt, order, signCalls, clean, failedOnly>>
waitVars == <<pending, backoffMs>>

\* ------------------------------------------------------------ pure parts
\* getConfig(): the process-wide policy
getConfig == processConfig

\* lines 70-73: logWithLevel compares with getConfig().logging.level
LogThreshold == getConfig.logging.level

\* the enabled flag is not looked at
AutoSignAlways(cfg) == TRUE

\* line 93: if (!config.enabled) return ...
AutoSignEnabled(cfg) == cfg.enabled

\* the user check is missing
UserAssumed(user) == TRUE

\* line 151: if (!user) return ...
UserProvided(user) == user # NoUser

\* only a missing payTo falls back to the asset (?? in place of ||)
PayToNullish(toolCall) ==
    IF toolCall.payment.payTo # Absent
    THEN toolCall.payment.payTo
    ELSE toolCall.payment.asset

\* line 168: toolCall.payment.payTo || toolCall.payment.asset
PayTo(toolCall) ==
    IF toolCall.payment.payTo \notin {Absent, ""}
    THEN toolCall.payment.payTo
    ELSE toolCall.payment.asset

\* createExactPaymentRequirements rejects an unsupported network
RequirementsError(network) == Error("Unsupported network: " \o network)

RequirementsThrow(network) == network \notin SupportedNetworks

createExactPaymentRequirements(amount, network, resource, description, payTo) ==
    [scheme |-> "exact", network |-> network, maxAmountRequired |-> amount,
     resource |-> resource, description |-> description, payTo |-> payTo]

\* lines 109-111: the error the timer rejects the race with
TimeoutError == Error("Auto-signing timeout")

\* the switch lacks the continue/default branch and falls into log_only's
FallbackResultNoDefault(cfg, error) ==
    CASE cfg.fallbackBehavior = "fail" ->
            Failure("Auto-signing failed: " \o
                    (IF error.isError THEN error.message ELSE "Unknown error"))
      [] OTHER ->
            Failure("Auto-signing failed (log_only mode)")

\* the instanceof test is inverted, so the cause's message is lost
FallbackResultNoMessage(cfg, error) ==
    CASE cfg.fallbackBehavior = "fail" ->
            Failure("Auto-signing failed: " \o
                    (IF ~error.isError THEN error.message ELSE "Unknown error"))
      [] cfg.fallbackBehavior = "log_only" ->
            Failure("Auto-signing failed (log_only mode)")
      [] OTHER ->
            Failure("Auto-signing failed, manual payment required")

\* lines 120-139: the catch block's switch on config.fallbackBehavior
FallbackResult(cfg, error) ==
    CASE cfg.fallbackBehavior = "fail" ->
            Failure("Auto-signing failed: " \o
                    (IF error.isError THEN error.message ELSE "Unknown error"))
      [] cfg.fallbackBehavior = "log_only" ->
            Failure("Auto-signing failed (log_only mode)")
      [] OTHER ->
            Failure("Auto-signing failed, manual payment required")

\* the comparator sorts ascending
CompareAscending(a, b) == a.priority - b.priority

\* line 191: the comparator of strategies.sort
Compare(a, b) == b.priority - a.priority

\* Array.prototype.sort is stable: s goes behind every element it does not
\* have to precede
RECURSIVE Insert(_, _)
Insert(s, sorted) ==
    IF sorted = <<>> THEN <<s>>
    ELSE IF Compare(Head(sorted), s) <= 0
         THEN <<Head(sorted)>> \o Insert(s, Tail(sorted))
         ELSE <<s>> \o sorted

RECURSIVE SortByPriority(_)
SortByPriority(strategies) ==
    IF strategies = <<>> THEN <<>>
    ELSE Insert(strategies[Len(strategies)],
                SortByPriority(SubSeq(strategies, 1, Len(strategies) - 1)))

\* the test branch does not return, so the production strategies follow
InModeFallThrough(class, test) == test \/ ~class.testOnly

\* lines 267 and 275: the test branch ends with return strategies, the
\* statements after it run in normal mode only
InMode(class, test) == class.testOnly = test

\* the constructor is called outside the try block
ConstructUnguarded(class) == IF class.constructs THEN "pushed" ELSE "thrown"

\* lines 268-273 and 278-283: try { strategies.push(new X()) } catch { warn }
Construct(class) == IF class.constructs THEN "pushed" ELSE "omitted"

\* lines 263-296: the strategy instances of this runtime
getSigningStrategies ==
    SelectSeq(registry,
              LAMBDA class : InMode(class, isTest) /\ Construct(class) = "pushed")

\* a constructor's error leaves getSigningStrategies
getSigningStrategiesThrows ==
    \E i \in DOMAIN registry :
        InMode(registry[i], isTest) /\ Construct(registry[i]) = "thrown"

\* the emptiness test is missing
NoStrategiesIgnored(strategies) == FALSE

\* line 195: if (sortedStrategies.length === 0)
NoStrategies(strategies) == Len(strategies) = 0

\* the body runs once before the bound is looked at (do ... while)
RetryLoopRunsOnce(a, cfg) == a = 1 \/ a <= cfg.maxRetries

\* line 205: attempt <= config.maxRetries
RetryLoopRuns(a, cfg) == a <= cfg.maxRetries

\* the retries end one attempt early
LastAttemptEarly(a, cfg) == a >= cfg.maxRetries - 1

\* with fallbackBehavior = "fail" a failed attempt is not retried
LastAttemptWhenFail(a, cfg) == a >= cfg.maxRetries \/ cfg.fallbackBehavior = "fail"

\* line 234: attempt >= config.maxRetries after a failed result
LastAttempt(a, cfg) == a >= cfg.maxRetries

\* a successful result is not recognised
SignNeverSucceeded(result) == FALSE

\* line 218: if (result.success)
SignSucceeded(result) == result.success

\* the result is passed on without the strategy's name
KeepResult(result, strategy) == result

\* lines 224-227: { ...result, strategy: strategy.name }
AnnotateResult(result, strategy) == [result EXCEPT !.strategy = strategy.name]

\* lines 256-259
AggregateFailure(strategies, cfg) ==
    Failure("All " \o ToString(Len(strategies)) \o " signing strategies failed after "
            \o ToString(cfg.maxRetries) \o " attempts each")

\* the sleep after a caught error is twice as long
RetryDelayDoubled(a) == 2000 * a

\* line 239: setTimeout(resolve, 1000 * attempt) after a failed result
RetryDelay(a) == 1000 * a

\* line 250: setTimeout(resolve, 1000 * attempt) after a caught error
RetryDelayCaught(a) == 1000 * a

\* line 245: attempt >= config.maxRetries in the catch block
LastAttemptCaught(a, cfg) == a >= cfg.maxRetries

\* the timer is never started
TimerNotArmed == "unset"

\* lines 109-111: setTimeout(() => reject(...), config.timeoutMs)
TimerArmed == "armed"

\* the call is started but its promise is not awaited
NotAwaited(calls, c) == calls

\* lines 209 and 216: await suspends performAutoSigning until call c settles
Awaited(calls, c) == calls \ {c}

\* Promise.race (line 115) takes the first settlement only
RaceOpen(st) == st = "racing"

\* the race is awaited outside the try block
CaughtCallOnly(origin) == origin = "performAutoSigning"

\* lines 113-116: what the try block encloses, the call of performAutoSigning
\* and the await of the race
Caught(origin) == origin \in {"performAutoSigning", "race"}

\* ---------------------------------------------------------------- actions
\* the parameters, local constants and promises of one orchestration call
\* (all declared inside attemptAutoSign and performAutoSigning), with what
\* has been observed of it
Locals ==
    [call |-> call, status |-> status, config |-> config, timer |-> timer,
     ret |-> ret, via |-> via, returns |-> returns, context |-> context,
     built |-> built, consulted |-> consulted,
     sortedStrategies |-> sortedStrategies, pc |-> pc, idx |-> idx,
     attempt |-> attempt, order |-> order, signCalls |-> signCalls,
     clean |-> clean, failedOnly |-> failedOnly, signingResult |-> signingResult,
     signed |-> signed, pending |-> pending, backoffMs |-> backoffMs,
     logThreshold |-> logThreshold]

StartLocals ==
    [call |-> NoCall, status |-> "idle", config |-> NoConfig, timer |-> "unset",
     ret |-> NoResult, via |-> "none", returns |-> 0, context |-> NoContext,
     built |-> 0, consulted |-> 0, sortedStrategies |-> <<>>, pc |-> "idle",
     idx |-> 0, attempt |-> 0, order |-> <<>>, signCalls |-> 0, clean |-> TRUE,
     failedOnly |-> <<>>, signingResult |-> NoResult, signed |-> <<>>,
     pending |-> {}, backoffMs |-> 0, logThreshold |-> Absent]

Start ==
    /\ call = NoCall
    /\ status = "idle"
    /\ config = NoConfig
    /\ timer = "unset"
    /\ ret = NoResult
    /\ via = "none"
    /\ returns = 0
    /\ context = NoContext
    /\ built = 0
    /\ consulted = 0
    /\ sortedStrategies = <<>>
    /\ pc = "idle"
    /\ idx = 0
    /\ attempt = 0
    /\ order = <<>>
    /\ signCalls = 0
    /\ clean = TRUE
    /\ failedOnly = <<>>
    /\ signingResult = NoResult
    /\ signed = <<>>
    /\ pending = {}
    /\ backoffMs = 0
    /\ logThreshold = Absent
    /\ other = StartLocals

\* the outcome of a database transaction: the operation and the error thrown
Outcome(op, error) == [op |-> op, error |-> error]

NoOutcome == Outcome("none", Absent)

\* the tools the mcp_tools table holds, each with the status last written
ToolIds == {"tool-1", "tool-2"}

\* the database before any of the transactions modelled here
DbStart ==
    /\ userWallets = <<>>
    /\ mcpTools = [t \in ToolIds |-> [status |-> "active"]]
    /\ toolPricing = <<>>
    /\ dbResult = NoOutcome

Init ==
    /\ processConfig \in PaymentStrategyConfig
    /\ isTest = FALSE
    /\ registry \in Registries
    /\ Start
    /\ DbStart

\* attemptAutoSign's promise resolves with r
Return(r, how) ==
    /\ status' = "returned"
    /\ ret' = r
    /\ via' = how
    /\ returns' = returns + 1

\* attemptAutoSign's promise rejects: the error escapes to the caller
Reject ==
    /\ status' = "rejected"
    /\ UNCHANGED <<ret, via, returns>>

\* lines 116-140: an error raised at origin reaches the catch block, or escapes
Raise(cfg, error, origin, how) ==
    IF Caught(origin) THEN Return(FallbackResult(cfg, error), how) ELSE Reject

\* the strategy call performAutoSigning is suspended on
InFlight == [strategy |-> sortedStrategies[idx].name, method |-> pc]

\* the pending calls once the await performAutoSigning is suspended on is over
Settled ==
    IF pc \in {"canSign", "signPayment"} THEN Awaited(pending, InFlight) ELSE pending

\* performAutoSigning returns r; the race passes it on if it is still open
Resolve(r) ==
    /\ pc' = "resolved"
    /\ signingResult' = r
    /\ pending' = Settled
    /\ backoffMs' = 0
    /\ IF RaceOpen(status) THEN Return(r, "signing") ELSE UNCHANGED outerVars

\* canSign is asked on the first attempt only; a retry signs straight away
CallSignDirectly(strategies, i, a) ==
    /\ pc' = IF a > 1 THEN "signPayment" ELSE "canSign"
    /\ idx' = i
    /\ attempt' = a
    /\ order' = IF i = idx THEN order ELSE Append(order, strategies[i].name)
    /\ pending' = Settled \cup {[strategy |-> strategies[i].name, method |-> pc']}
    /\ backoffMs' = 0

\* line 209: await strategy.canSign(context), attempt a on strategy i
CallCanSign(strategies, i, a) ==
    /\ pc' = "canSign"
    /\ idx' = i
    /\ attempt' = a
    /\ order' = IF i = idx THEN order ELSE Append(order, strategies[i].name)
    /\ pending' = Settled \cup {[strategy |-> strategies[i].name, method |-> "canSign"]}
    /\ backoffMs' = 0

\* lines 204-205 and 255-259: the for loop reaches strategy i
LoopFrom(strategies, i, cfg, nowClean) ==
    IF i <= Len(strategies) /\ RetryLoopRuns(1, cfg)
    THEN /\ CallCanSign(strategies, i, 1)
         /\ signCalls' = 0
         /\ clean' = TRUE
         /\ UNCHANGED <<signingResult, outerVars>>
    ELSE /\ Resolve(AggregateFailure(strategies, cfg))
         /\ clean' = nowClean
         /\ UNCHANGED <<idx, attempt, order, signCalls>>

\* break: the retry loop of the current strategy is left
MoveOn(nowClean) ==
    /\ failedOnly' = IF nowClean
                     THEN (sortedStrategies[idx].name :> signCalls) @@ failedOnly
                     ELSE failedOnly
    /\ LoopFrom(sortedStrategies, idx + 1, config, nowClean)

\* the backoff sleep of ms milliseconds starts
Sleep(ms, nowClean) ==
    /\ pc' = "backoff"
    /\ clean' = nowClean
    /\ pending' = Settled
    /\ backoffMs' = ms
    /\ UNCHANGED <<idx, attempt, order, signCalls, failedOnly, signingResult,
                   outerVars>>

\* lines 228-240: signPayment returned a failure; the retries end or sleep
FailedAttempt(nowClean) ==
    IF LastAttempt(attempt, config)
    THEN MoveOn(nowClean)
    ELSE Sleep(RetryDelay(attempt), nowClean)

\* lines 241-251: canSign or signPayment threw; the retries end or sleep
CaughtError(nowClean) ==
    IF LastAttemptCaught(attempt, config)
    THEN MoveOn(nowClean)
    ELSE Sleep(RetryDelayCaught(attempt), nowClean)

\* canSign = false is handled like a failed attempt
DeclinedRetries == FailedAttempt(FALSE)

\* canSign = false ends the whole loop
DeclinedEndsLoop ==
    /\ failedOnly' = failedOnly
    /\ LoopFrom(sortedStrategies, Len(sortedStrategies) + 1, config, FALSE)

\* lines 210-213: if (!canSign) break
Declined == MoveOn(FALSE)

\* lines 85-115 and 144-187: the call, up to performAutoSigning's first await
attemptAutoSign(toolCall, user) ==
    /\ status = "idle"
    /\ call' = [toolCall |-> toolCall, user |-> user]
    /\ config' = getConfig
    /\ IF ~AutoSignEnabled(getConfig)
       THEN /\ Return(Failure("Auto-signing disabled"), "disabled")
            /\ UNCHANGED <<timer, context, built, pc, signingResult>>
       ELSE /\ timer' = TimerArmed
            /\ IF ~UserProvided(user)
               THEN /\ pc' = "resolved"
                    /\ signingResult' = Failure("User not provided")
                    /\ Return(Failure("User not provided"), "signing")
                    /\ UNCHANGED <<context, built>>
               ELSE /\ built' = built + 1
                    /\ IF RequirementsThrow(toolCall.payment.network)
                       THEN /\ pc' = "rejected"
                            /\ Raise(getConfig,
                                     RequirementsError(toolCall.payment.network),
                                     "performAutoSigning", "exception")
                            /\ UNCHANGED <<context, signingResult>>
                       ELSE /\ context' =
                                 [toolCall |-> toolCall,
                                  user |-> user,
                                  paymentRequirements |->
                                    << createExactPaymentRequirements(
                                         toolCall.payment.maxAmountRequired,
                                         toolCall.payment.network,
                                         toolCall.payment.resource,
                                         toolCall.payment.description,
                                         PayTo(toolCall)) >>]
                            /\ pc' = "getStrategies"
                            /\ status' = "racing"
                            /\ UNCHANGED <<ret, via, returns, signingResult>>
    /\ logThreshold' = LogThreshold
    /\ UNCHANGED <<envVars, consulted, sortedStrategies, loopVars, signed, waitVars>>

\* lines 190-205: the registry answers, the list is sorted, the loop starts
GetStrategies ==
    /\ pc = "getStrategies"
    /\ consulted' = consulted + 1
    /\ IF getSigningStrategiesThrows
       THEN /\ pc' = "rejected"
            /\ IF RaceOpen(status)
               THEN Raise(config, Error("strategy not available"), "race", "exception")
               ELSE UNCHANGED outerVars
            /\ UNCHANGED <<sortedStrategies, idx, attempt, order, signCalls, clean,
                           signingResult, waitVars>>
       ELSE /\ sortedStrategies' = SortByPriority(getSigningStrategies)
            /\ IF NoStrategies(sortedStrategies')
               THEN /\ Resolve(Failure("No signing strategies available"))
                    /\ UNCHANGED <<idx, attempt, order, signCalls, clean>>
               ELSE LoopFrom(sortedStrategies', 1, config, TRUE)
    /\ logThreshold' = LogThreshold
    /\ UNCHANGED <<envVars, callVars, timer, context, built, failedOnly, signed>>

\* lines 209-216 and 241: canSign settles with answer
CanSignAnswered(answer) ==
    /\ pc = "canSign"
    /\ answer \in CanSignAnswers(sortedStrategies[idx])
    /\ CASE answer = "true" ->
               /\ pc' = "signPayment"
               /\ signCalls' = signCalls + 1
               /\ pending' = Settled \cup {[strategy |-> sortedStrategies[idx].name,
                                           method |-> "signPayment"]}
               /\ UNCHANGED <<idx, attempt, order, clean, failedOnly,
                              signingResult, outerVars, backoffMs>>
         [] answer = "false" -> Declined
         [] OTHER -> CaughtError(FALSE)
    /\ logThreshold' = LogThreshold
    /\ UNCHANGED <<envVars, callVars, timer, context, built, consulted,
                   sortedStrategies, signed>>

CanSignReturns == \E answer \in {"true", "false", "throws"} : CanSignAnswered(answer)

\* lines 216-251: signPayment settles with answer
SignPaymentAnswered(answer) ==
    /\ pc = "signPayment"
    /\ answer \in SignPaymentAnswers(sortedStrategies[idx])
    /\ signed' = IF answer.kind = "returns" /\ answer.value.success
                 THEN Append(signed, [strategy |-> sortedStrategies[idx].name,
                                      result |-> answer.value])
                 ELSE signed
    /\ IF answer.kind = "throws"
       THEN CaughtError(clean)
       ELSE IF SignSucceeded(answer.value)
            THEN /\ Resolve(AnnotateResult(answer.value, sortedStrategies[idx]))
                 /\ UNCHANGED loopVars
            ELSE FailedAttempt(clean /\ ~answer.value.success)
    /\ logThreshold' = IF \/ answer.kind = "throws"
                          \/ ~SignSucceeded(answer.value) /\ LastAttempt(attempt, config)
                       THEN LogThreshold
                       ELSE logThreshold
    /\ UNCHANGED <<envVars, callVars, timer, context, built, consulted,
                   sortedStrategies>>

SignPaymentReturns ==
    \E answer \in { Returns(r) : r \in SuccessResults \cup FailureResults } \cup { Throws } :
        SignPaymentAnswered(answer)

\* lines 239 and 250, then attempt++ and the loop condition of line 205
BackoffElapses ==
    /\ pc = "backoff"
    /\ IF RetryLoopRuns(attempt + 1, config)
       THEN /\ CallCanSign(sortedStrategies, idx, attempt + 1)
            /\ UNCHANGED <<signCalls, clean, failedOnly, signingResult, outerVars>>
       ELSE MoveOn(clean)
    /\ logThreshold' = LogThreshold
    /\ UNCHANGED <<envVars, callVars, timer, context, built, consulted,
                   sortedStrategies, signed>>

\* lines 109-140: the timer fires while a strategy call or a backoff sleep is
\* pending, or after the race is over (where its rejection is dropped)
TimeoutFires ==
    /\ timer = "armed"
    /\ pc \in {"canSign", "signPayment", "backoff", "resolved", "rejected"}
    /\ timer' = "fired"
    /\ IF RaceOpen(status)
       THEN Raise(config, TimeoutError, "race", "timeout")
       ELSE UNCHANGED outerVars
    /\ logThreshold' = IF RaceOpen(status) THEN LogThreshold ELSE logThreshold
    /\ UNCHANGED <<envVars, callVars, context, built, consulted, sortedStrategies,
                   pc, loopVars, signingResult, signed, waitVars>>

Next ==
    \/ \E toolCall \in ToolCalls, user \in Users \cup {NoUser} :
          attemptAutoSign(toolCall, user)
    \/ GetStrategies
    \/ CanSignReturns
    \/ SignPaymentReturns
    \/ BackoffElapses
    \/ TimeoutFires

Spec == Init /\ [][Next]_vars

\* ------------------------------------------------------------- progress
\* The JavaScript runtime runs a ready continuation and fires a timer that
\* is due: getSigningStrategies awaits nothing that waits, and timeoutMs is
\* finite.  Nothing obliges a strategy's canSign or signPayment to settle.
\* The order of the strategies has no bearing on progress: the lists are
\* those of one priority.
LiveInit ==
    /\ Init
    /\ \A i \in DOMAIN registry : registry[i].priority = 10

LiveSpec ==
    LiveInit /\ [][Next]_vars /\ WF_vars(GetStrategies) /\ WF_vars(TimeoutFires)

\* --------------------------------------------------- two concurrent calls
\* the context is a variable of the module, which every call overwrites
ModuleContext(saved) == context

\* lines 183-187: const context is a local of each performAutoSigning call
OwnContext(saved) == saved.context

\* The event loop turns from one orchestration call to the other: the
\* running call stays at its suspension point (lines 190, 209, 216, 239,
\* 250) or has not started or has finished, the other call's locals are in
\* force again.
Switch ==
    /\ other' = Locals
    /\ call' = other.call
    /\ status' = other.status
    /\ config' = other.config
    /\ timer' = other.timer
    /\ ret' = other.ret
    /\ via' = other.via
    /\ returns' = other.returns
    /\ context' = OwnContext(other)
    /\ built' = other.built
    /\ consulted' = other.consulted
    /\ sortedStrategies' = other.sortedStrategies
    /\ pc' = other.pc
    /\ idx' = other.idx
    /\ attempt' = other.attempt
    /\ order' = other.order
    /\ signCalls' = other.signCalls
    /\ clean' = other.clean
    /\ failedOnly' = other.failedOnly
    /\ signingResult' = other.signingResult
    /\ signed' = other.signed
    /\ pending' = other.pending
    /\ backoffMs' = other.backoffMs
    /\ logThreshold' = other.logThreshold
    /\ UNCHANGED <<moduleVars, dbVars>>

ConcurrentConfigs ==
    { c \in PaymentStrategyConfig : c.enabled /\ c.fallbackBehavior = "fail" }

ConcurrentLists ==
    { l \in FreeLists : Len(l) <= 2 /\ \A i \in DOMAIN l : l[i].priority = 10 }

ConcurrentInit ==
    /\ processConfig \in ConcurrentConfigs
    /\ isTest = FALSE
    /\ registry \in ConcurrentLists
    /\ Start
    /\ DbStart

ConcurrentNext == Next \/ Switch

ConcurrentSpec == ConcurrentInit /\ [][ConcurrentNext]_vars

\* ------------------------------------------------- the policy may change
\* What getConfig returns is the process's business: it may change between
\* any two steps of a call.
PolicyConfigs ==
    { [enabled |-> e, maxRetries |-> r, fallbackBehavior |-> f, logging |-> Logging(l)] :
        e \in BOOLEAN, r \in {1, MaxRetriesBound}, f \in {"fail", "continue"},
        l \in {"debug", "error"} }

localVars ==
    <<call, status, config, timer, ret, via, returns, context, built, consulted,
      sortedStrategies, pc, idx, attempt, order, signCalls, clean, failedOnly,
      signingResult, signed, pending, backoffMs, logThreshold>>

SetConfig ==
    /\ processConfig' \in PolicyConfigs \ {processConfig}
    /\ UNCHANGED <<isTest, registry, other, localVars, dbVars>>

\* strategies that answer the same way on every call
PinnedLists ==
    UNION { { [i \in 1..n |-> Strategy(i, 10, b[i])] :
                b \in [1..n -> {"signs", "declines", "fails"}] } : n \in 0..2 }

ConfigInit ==
    /\ processConfig \in PolicyConfigs
    /\ isTest = FALSE
    /\ registry \in PinnedLists
    /\ Start
    /\ DbStart

ConfigNext == Next \/ SetConfig

ConfigSpec == ConfigInit /\ [][ConfigNext]_vars

\* ------------------------------------------------------------- two runs
\* One call runs to its end, fallbackBehavior may be set to another value,
\* and the call is made a second time with the same arguments, the same
\* strategies (which answer the same way on every call) and a policy that
\* differs in fallbackBehavior at most.
CallOver ==
    /\ status \in {"returned", "rejected"}
    /\ pc \notin {"getStrategies", "canSign", "signPayment", "backoff"}

SetFallbackBehavior ==
    /\ CallOver
    /\ other.status = "idle"
    /\ \E f \in FallbackBehaviors \ {processConfig.fallbackBehavior} :
          processConfig' = [processConfig EXCEPT !.fallbackBehavior = f]
    /\ UNCHANGED <<isTest, registry, other, localVars, dbVars>>

SecondRun ==
    /\ CallOver
    /\ other.status = "idle"
    /\ Switch

TwinNext ==
    \/ \E toolCall \in ToolCalls, user \in Users \cup {NoUser} :
          /\ other.status # "idle" =>
                other.call = [toolCall |-> toolCall, user |-> user]
          /\ attemptAutoSign(toolCall, user)
    \/ GetStrategies
    \/ CanSignReturns
    \/ SignPaymentReturns
    \/ BackoffElapses
    \/ TimeoutFires
    \/ SetFallbackBehavior
    \/ SecondRun

TwinInit ==
    /\ processConfig \in PaymentStrategyConfig
    /\ isTest = FALSE
    /\ registry \in PinnedLists
    /\ Start
    /\ DbStart

TwinSpec == TwinInit /\ [][TwinNext]_vars

\* ------------------------------------------- a retry bound that allows nothing
\* policies whose maxRetries may be zero or negative: nothing between
\* getConfig() and the loop condition of line 205 rejects such a bound
RetryConfigs ==
    { [enabled |-> TRUE, maxRetries |-> r, fallbackBehavior |-> f,
       logging |-> Logging("info")] :
          r \in {-1, 0, 1, MaxRetriesBound}, f \in FallbackBehaviors }

RetryInit ==
    /\ processConfig \in RetryConfigs
    /\ isTest = FALSE
    /\ registry \in PinnedLists
    /\ Start
    /\ DbStart

RetrySpec == RetryInit /\ [][Next]_vars

\* ------------------------------------------------ the wallet transactions
\* db/actions.ts: addWalletToUser, setPrimaryWallet and removeWallet, each
\* run as one transaction, one at a time.  A wallet's id is its position in
\* userWallets, which is also the order of createdAt; provider and
\* walletType are the same for every wallet, so a user's wallet is
\* identified by its address.
MaxWallets == 3

WalletUsers == {"user-1", "user-2"}
WalletAddresses == {"0xW1", "0xW2", "0xW3"}

\* the addresses each user connects: user-2 has one wallet at most, at an
\* address user-1 may connect too
AddressesOf(userId) == IF userId = "user-1" THEN WalletAddresses ELSE {"0xW1"}

\* data.isPrimary: true, false or not given
IsPrimaryOptions == {"true", "false", Absent}

paymentVars == <<moduleVars, other, localVars>>

\* where eq(userWallets.userId, userId)
WalletsOf(rows, userId) == { i \in DOMAIN rows : rows[i].userId = userId }

\* where and(eq(userWallets.userId, userId), eq(userWallets.isActive, true))
ActiveWalletsOf(rows, userId) == { i \in WalletsOf(rows, userId) : rows[i].isActive }

\* lines 1030-1037: the record of this user with this address
ExistingWallet(rows, userId, walletAddress) ==
    { i \in WalletsOf(rows, userId) : rows[i].walletAddress = walletAddress }

\* lines 1041-1057: isPrimary: data.isPrimary || existingWallet.isPrimary
Reactivated(wallet, isPrimary) ==
    [wallet EXCEPT !.isActive = TRUE,
                   !.isPrimary = (isPrimary = "true") \/ wallet.isPrimary]

\* lines 1060-1075: data.isPrimary !== undefined ? data.isPrimary : existing
Updated(wallet, isPrimary) ==
    [wallet EXCEPT !.isPrimary = IF isPrimary # Absent THEN isPrimary = "true"
                                 ELSE wallet.isPrimary]

\* lines 1079-1087 and 1166-1171: set isPrimary = false where the user's
\* wallet is primary
UnsetPrimary(rows, userId) ==
    [i \in DOMAIN rows |->
        IF rows[i].userId = userId /\ rows[i].isPrimary
        THEN [rows[i] EXCEPT !.isPrimary = FALSE]
        ELSE rows[i]]

\* lines 1017-1109
AddWallet(rows, userId, walletAddress, isPrimary) ==
    LET existing == ExistingWallet(rows, userId, walletAddress) IN
    IF existing # {}
    THEN LET id == CHOOSE i \in existing : TRUE IN
         [rows EXCEPT ![id] = IF ~rows[id].isActive
                              THEN Reactivated(rows[id], isPrimary)
                              ELSE Updated(rows[id], isPrimary)]
    ELSE Append(IF isPrimary = "true" THEN UnsetPrimary(rows, userId) ELSE rows,
                [userId |-> userId, walletAddress |-> walletAddress,
                 isActive |-> TRUE, isPrimary |-> (isPrimary = "true")])

addWalletToUser(userId, walletAddress, isPrimary) ==
    /\ \/ ExistingWallet(userWallets, userId, walletAddress) # {}
       \/ Len(userWallets) < MaxWallets
    /\ userWallets' = AddWallet(userWallets, userId, walletAddress, isPrimary)
    /\ dbResult' = Outcome("addWalletToUser", Absent)
    /\ UNCHANGED <<mcpTools, toolPricing, paymentVars>>

\* lines 1153-1163: the wallet must be an active wallet of the user
SetPrimaryError(rows, userId, walletId) ==
    IF walletId \in ActiveWalletsOf(rows, userId)
    THEN Absent
    ELSE "Wallet not found or doesn't belong to user"

\* lines 1165-1179
SetPrimary(rows, userId, walletId) ==
    [UnsetPrimary(rows, userId) EXCEPT ![walletId].isPrimary = TRUE]

setPrimaryWallet(userId, walletId) ==
    /\ userWallets' = IF SetPrimaryError(userWallets, userId, walletId) = Absent
                      THEN SetPrimary(userWallets, userId, walletId)
                      ELSE userWallets
    /\ dbResult' = Outcome("setPrimaryWallet",
                           SetPrimaryError(userWallets, userId, walletId))
    /\ UNCHANGED <<mcpTools, toolPricing, paymentVars>>

\* only a user without any active wallet is refused
NoWalletLeft(count) == count <= 0

\* line 1203: if (userWalletCount.length <= 1)
OnlyWalletLeft(count) == count <= 1

\* lines 1184-1205: the two errors of removeWallet
RemoveWalletError(rows, userId, walletId) ==
    IF walletId \notin WalletsOf(rows, userId)
    THEN "Wallet not found or doesn't belong to user"
    ELSE IF OnlyWalletLeft(Cardinality(ActiveWalletsOf(rows, userId)))
         THEN "Cannot remove the last wallet from a user"
         ELSE Absent

\* lines 1208-1215: isActive: false, isPrimary: false
Deactivate(rows, walletId) ==
    [rows EXCEPT ![walletId].isActive = FALSE, ![walletId].isPrimary = FALSE]

\* orderBy desc(createdAt), limit 1
Latest(ids) == CHOOSE i \in ids : \A j \in ids : j <= i

\* lines 1218-1233: the latest remaining active wallet becomes primary
PromoteLatest(rows, userId) ==
    LET remainingWallets == ActiveWalletsOf(rows, userId) IN
    IF remainingWallets = {}
    THEN rows
    ELSE [rows EXCEPT ![Latest(remainingWallets)].isPrimary = TRUE]

\* lines 1207-1235
RemoveWallet(rows, userId, walletId) ==
    IF rows[walletId].isPrimary
    THEN PromoteLatest(Deactivate(rows, walletId), userId)
    ELSE Deactivate(rows, walletId)

removeWallet(userId, walletId) ==
    /\ userWallets' = IF RemoveWalletError(userWallets, userId, walletId) = Absent
                      THEN RemoveWallet(userWallets, userId, walletId)
                      ELSE userWallets
    /\ dbResult' = Outcome("removeWallet",
                           RemoveWalletError(userWallets, userId, walletId))
    /\ UNCHANGED <<mcpTools, toolPricing, paymentVars>>

WalletNext ==
    \/ \E userId \in WalletUsers, isPrimary \in IsPrimaryOptions :
          \E walletAddress \in AddressesOf(userId) :
            addWalletToUser(userId, walletAddress, isPrimary)
    \/ \E userId \in WalletUsers, walletId \in 1..MaxWallets :
            setPrimaryWallet(userId, walletId)
    \/ \E userId \in WalletUsers, walletId \in 1..MaxWallets :
            removeWallet(userId, walletId)

\* no orchestration call is made while the wallet transactions run
DbInit ==
    /\ processConfig \in { c \in PaymentStrategyConfig :
                             ~c.enabled /\ c.maxRetries = 0 /\ c.fallbackBehavior = "fail" }
    /\ isTest = FALSE
    /\ registry = <<>>
    /\ Start
    /\ DbStart

WalletSpec == DbInit /\ [][WalletNext]_vars

\* ----------------------------------------------- the pricing transactions
\* db/actions.ts: createToolPricing, deactivateToolPricing and
\* updateToolWithNewPricing, each run as one transaction, one at a time.  A
\* pricing record's id is its position in toolPricing.
MaxPricings == 3

\* tool ids a caller may pass: those of the table and one it does not hold
ToolIdArguments == ToolIds \cup {"tool-404"}

ToolStatuses == {"active", "disabled"}
PriceRaws == {"100000", "250000"}

\* where and(eq(toolPricing.toolId, toolId), eq(toolPricing.active, true))
ActivePricingOf(rows, toolId) ==
    { i \in DOMAIN rows : rows[i].toolId = toolId /\ rows[i].active }

\* what a throw leaves behind when the writes made before it are kept
CommittedAnyway(before, after, error) == after

\* lines 92-96 and 2763: db.transaction commits the writes of a callback
\* that returns and rolls back those of a callback that throws
Committed(before, after, error) == IF error = Absent THEN after ELSE before

\* line 882: the update matched no tool
UpdateToolError(tools, toolId) ==
    IF toolId \in DOMAIN tools THEN Absent ELSE "Tool with ID " \o toolId \o " not found"

\* lines 874-880
UpdateTool(tools, toolId, toolStatus) == [tools EXCEPT ![toolId].status = toolStatus]

\* lines 1691-1706: findFirst has no orderBy, so with several active
\* records of the tool any one of them may be the one it returns
DeactivateToolPricing(rows, toolId) ==
    IF ActivePricingOf(rows, toolId) = {}
    THEN {rows}
    ELSE { [rows EXCEPT ![i].active = FALSE] : i \in ActivePricingOf(rows, toolId) }

\* lines 1666-1676
CreateToolPricing(rows, toolId, priceRaw) ==
    Append(rows, [toolId |-> toolId, priceRaw |-> priceRaw, active |-> TRUE])

\* line 1678: the insert returned no record
CreateToolPricingError(inserted) ==
    IF inserted THEN Absent ELSE "Failed to create pricing"

createToolPricing(toolId, priceRaw, inserted) ==
    /\ Len(toolPricing) < MaxPricings
    /\ toolId \in DOMAIN mcpTools
    /\ toolPricing' = Committed(toolPricing,
                                CreateToolPricing(toolPricing, toolId, priceRaw),
                                CreateToolPricingError(inserted))
    /\ dbResult' = Outcome("createToolPricing", CreateToolPricingError(inserted))
    /\ UNCHANGED <<userWallets, mcpTools, paymentVars>>

deactivateToolPricing(toolId) ==
    /\ toolPricing' \in DeactivateToolPricing(toolPricing, toolId)
    /\ dbResult' = Outcome("deactivateToolPricing", Absent)
    /\ UNCHANGED <<userWallets, mcpTools, paymentVars>>

\* lines 2758-2770
updateToolWithNewPricing(toolId, toolStatus, priceRaw, inserted) ==
    /\ Len(toolPricing) < MaxPricings
    /\ IF UpdateToolError(mcpTools, toolId) # Absent
       THEN /\ dbResult' = Outcome("updateToolWithNewPricing",
                                   UpdateToolError(mcpTools, toolId))
            /\ mcpTools' = Committed(mcpTools, mcpTools, dbResult'.error)
            /\ toolPricing' = Committed(toolPricing, toolPricing, dbResult'.error)
       ELSE \E deactivated \in DeactivateToolPricing(toolPricing, toolId) :
            /\ dbResult' = Outcome("updateToolWithNewPricing",
                                   CreateToolPricingError(inserted))
            /\ mcpTools' = Committed(mcpTools, UpdateTool(mcpTools, toolId, toolStatus),
                                     dbResult'.error)
            /\ toolPricing' =
                  Committed(toolPricing,
                            IF inserted
                            THEN CreateToolPricing(deactivated, toolId, priceRaw)
                            ELSE deactivated,
                            dbResult'.error)
    /\ UNCHANGED <<userWallets, paymentVars>>

PricingNext ==
    \/ \E toolId \in ToolIdArguments, priceRaw \in PriceRaws, inserted \in BOOLEAN :
          createToolPricing(toolId, priceRaw, inserted)
    \/ \E toolId \in ToolIdArguments : deactivateToolPricing(toolId)
    \/ \E toolId \in ToolIdArguments, toolStatus \in ToolStatuses, priceRaw \in PriceRaws,
          inserted \in BOOLEAN :
          updateToolWithNewPricing(toolId, toolStatus, priceRaw, inserted)

PricingSpec == DbInit /\ [][PricingNext]_vars

\* ------------------------------------------- the registry and its runtime
\* The strategy classes getSigningStrategies knows, in source order: the
\* testing strategy of the test branch first, then the production strategies
\* (the managed-custody one and those added at line 286).  A constructor may
\* throw; the testing strategy signs whatever it is given.
ClassPriority(i) == IF i % 2 = 1 THEN 50 ELSE 30

Class(i, constructs) ==
    [Strategy(i, ClassPriority(i), IF i = 1 THEN "signs" ELSE "free")
        EXCEPT !.testOnly = (i = 1), !.constructs = constructs]

ClassLists ==
    UNION { { [i \in 1..n |-> Class(i, c[i])] : c \in [1..n -> BOOLEAN] } :
              n \in 1..MaxStrategies }

RegistryInit ==
    /\ processConfig \in PaymentStrategyConfig
    /\ isTest \in BOOLEAN
    /\ registry \in ClassLists
    /\ Start
    /\ DbStart

RegistrySpec == RegistryInit /\ [][Next]_vars

\* ----------------------------------------------------------------- claims
Called == status # "idle"

NonEmpty(text) == text \notin {Absent, ""}

NoStrategyWork ==
    /\ order = <<>>
    /\ signCalls = 0
    /\ signed = <<>>
    /\ pc \notin {"canSign", "signPayment", "backoff"}

\* C1: with enabled = false the call returns {success: false, error:
\* "Auto-signing disabled"} and, in that call, no canSign or signPayment is
\* invoked, the registry is not consulted and no payment requirement is
\* built, whatever the tool call and the user.
C1_DisabledDoesNothing ==
    (Called /\ ~processConfig.enabled) =>
        /\ status = "returned"
        /\ ret = Failure("Auto-signing disabled")
        /\ NoStrategyWork
        /\ consulted = 0
        /\ built = 0
        /\ context = NoContext

C1_Witness ==
    /\ status = "returned"
    /\ ~processConfig.enabled
    /\ call.user # NoUser
    /\ registry # <<>>

\* C2: enabled and no user: the call returns success = false with "User not
\* provided", builds no PaymentRequirement, does not consult the registry
\* and invokes no canSign or signPayment.
C2_NoUserDoesNothing ==
    (Called /\ processConfig.enabled /\ call.user = NoUser) =>
        /\ status = "returned"
        /\ ret = Failure("User not provided")
        /\ NoStrategyWork
        /\ consulted = 0
        /\ built = 0
        /\ context = NoContext

C2_Witness ==
    /\ status = "returned"
    /\ processConfig.enabled
    /\ call.user = NoUser
    /\ registry # <<>>

\* the registry holds exactly one strategy that always can sign and always
\* signs, and every other strategy always answers canSign = false
OnlySigner(x) ==
    /\ x \in DOMAIN registry
    /\ registry[x].behaviour = "signs"
    /\ \A y \in DOMAIN registry : y # x => registry[y].behaviour = "declines"

\* a paid tool call whose payment terms build, a present user, the policy
\* enabled with maxRetries >= 1
SigningCall ==
    /\ status = "returned"
    /\ call.toolCall.isPaid
    /\ call.user # NoUser
    /\ ~RequirementsThrow(call.toolCall.payment.network)
    /\ processConfig.enabled
    /\ processConfig.maxRetries >= 1

\* C3 as stated: with exactly one strategy able to sign (and always
\* succeeding) and all others declining, the call returns success = true
\* with strategy = that strategy's name, whatever the other strategies and
\* the priorities are.
C3_OnlySignerWins ==
    \A x \in DOMAIN registry :
        (SigningCall /\ OnlySigner(x)) =>
            /\ ret.success
            /\ ret.strategy = registry[x].name

\* C3 amended: the same, unless the overall timeout fires before that
\* strategy's signPayment has answered, in which case the call returns a
\* failure.
C3_OnlySignerWinsUnlessTimeout ==
    \A x \in DOMAIN registry :
        (SigningCall /\ OnlySigner(x)) =>
            IF via = "timeout"
            THEN ~ret.success
            ELSE /\ ret.success
                 /\ ret.strategy = registry[x].name
                 /\ ret.signedPaymentHeader = "x402-header"

C3_Witness ==
    \E x \in DOMAIN registry :
        /\ SigningCall
        /\ OnlySigner(x)
        /\ Len(registry) = MaxStrategies
        /\ ret.success
        /\ idx = Len(registry)
        /\ registry[x].priority = 30

PriorityOf(name) ==
    LET i == CHOOSE j \in DOMAIN registry : registry[j].name = name
    IN registry[i].priority

RegistryIndex(name) == CHOOSE j \in DOMAIN registry : registry[j].name = name

\* C4: in one orchestration call the strategies get their first canSign
\* call in non-increasing priority order, strategies of equal priority in
\* the order the registry returned them; priorities [10, 50, 30] are
\* consulted as [50, 30, 10].
C4_PriorityOrder ==
    /\ \A i, j \in DOMAIN order :
          i < j =>
            \/ PriorityOf(order[i]) > PriorityOf(order[j])
            \/ /\ PriorityOf(order[i]) = PriorityOf(order[j])
               /\ RegistryIndex(order[i]) < RegistryIndex(order[j])
    /\ \A i \in DOMAIN order : order[i] = sortedStrategies[i].name
    /\ \A i \in DOMAIN registry, n \in DOMAIN order :
          registry[i].name \notin { order[k] : k \in DOMAIN order }
             => registry[i].priority <= PriorityOf(order[n])
    /\ (Len(registry) = 3 /\ [i \in 1..3 |-> registry[i].priority] = <<10, 50, 30>>
        /\ Len(order) = 3) => order = <<"B", "C", "A">>

C4_Witness ==
    /\ Len(registry) = 3
    /\ [i \in 1..3 |-> registry[i].priority] = <<30, 50, 30>>
    /\ order = <<"B", "A", "C">>

\* C5: a strategy whose canSign always answers true and whose signPayment
\* always fails gets exactly maxRetries signPayment calls before the
\* orchestrator moves on, and no strategy ever gets more than maxRetries
\* signPayment calls in one orchestration call.
C5_RetryBound ==
    /\ signCalls <= config.maxRetries
    /\ attempt <= config.maxRetries
    /\ \A n \in DOMAIN failedOnly : failedOnly[n] = config.maxRetries

C5_Witness ==
    /\ via # "timeout"
    /\ Len(order) >= 2
    /\ order[1] \in DOMAIN failedOnly
    /\ failedOnly[order[1]] = MaxRetriesBound
    /\ pc = "canSign"

\* C6: no result attemptAutoSign returns has success = true together with a
\* non-empty error, whatever the strategies' signPayment hand back.
C6_SuccessExcludesError ==
    status = "returned" => ~(ret.success /\ NonEmpty(ret.error))

\* C7: attemptAutoSign never rejects: whatever the strategies and the
\* requirement builder do, its promise resolves with exactly one
\* PaymentSigningResult.
C7_NeverRejects ==
    /\ status # "rejected"
    /\ returns <= 1
    /\ (status = "returned") <=> (returns = 1)
    /\ pc \in {"resolved", "rejected"} => status = "returned"

C7_Witness ==
    /\ status = "returned"
    /\ pc = "rejected"
    /\ built = 1

\* C8: one deadline covers the whole attempt sequence: when the timer fires
\* before performAutoSigning has produced a result, the call returns a
\* failure at once, without waiting for the strategy call in flight; with
\* fallbackBehavior = "continue" the result is {success: false, error:
\* "Auto-signing failed, manual payment required"}.
C8_DeadlineEndsTheCall ==
    /\ timer = "fired" => status = "returned"
    /\ (status = "racing") => timer = "armed"
    /\ via = "timeout" =>
          /\ ~ret.success
          /\ NonEmpty(ret.error)
          /\ config.fallbackBehavior = "continue" =>
                ret = Failure("Auto-signing failed, manual payment required")

C8_Witness ==
    /\ via = "timeout"
    /\ pc = "signPayment"
    /\ config.fallbackBehavior = "continue"
    /\ ret = Failure("Auto-signing failed, manual payment required")

\* the message of the error that took the top-level error path
CauseMessage ==
    IF via = "timeout" THEN "Auto-signing timeout"
    ELSE RequirementsError(call.toolCall.payment.network).message

\* C9: on the top-level error path (timeout, or an exception outside the
\* retry loop) the failure depends on fallbackBehavior alone: "fail" gives
\* "Auto-signing failed: <message>", "log_only" gives "Auto-signing failed
\* (log_only mode)", anything else gives "Auto-signing failed, manual
\* payment required"; success = false in all cases.
C9_FallbackBehavior ==
    via \in {"timeout", "exception"} =>
        /\ status = "returned"
        /\ ~ret.success
        /\ ret.strategy = Absent
        /\ ret.signedPaymentHeader = Absent
        /\ ret.error =
             CASE config.fallbackBehavior = "fail" ->
                     "Auto-signing failed: " \o CauseMessage
               [] config.fallbackBehavior = "log_only" ->
                     "Auto-signing failed (log_only mode)"
               [] OTHER -> "Auto-signing failed, manual payment required"

C9_Witness ==
    /\ via = "exception"
    /\ config.fallbackBehavior = "fail"
    /\ ret.error = "Auto-signing failed: Unsupported network: bogus-net"

\* the result of the first successful signPayment, named after its strategy
FirstSigned == [signed[1].result EXCEPT !.strategy = signed[1].strategy]

\* no strategy call is pending or will be made
NoFurtherCalls ==
    /\ pc = "resolved"
    /\ Len(signed) = 1
    /\ order[Len(order)] = signed[1].strategy
    /\ sortedStrategies[idx].name = signed[1].strategy

Declines(name) ==
    \E i \in DOMAIN sortedStrategies :
        sortedStrategies[i].name = name /\ sortedStrategies[i].behaviour = "declines"

CanSignCall(strategy) == [strategy |-> strategy.name, method |-> "canSign"]

\* C11: a strategy whose canSign answers false is skipped without retry:
\* in that attempt its signPayment is not called, no backoff sleep starts,
\* and the orchestrator goes straight to the first canSign of the next
\* strategy (or, after the last one, to the aggregate failure) and never
\* comes back to the skipped strategy; a strategy that always declines never
\* has signPayment called and is called once only.
C11_DeclinedIsSkipped ==
    /\ [][CanSignAnswered("false") =>
            /\ pc' \notin {"signPayment", "backoff"}
            /\ signCalls' \in {0, signCalls}
            /\ backoffMs' = 0
            /\ IF idx < Len(sortedStrategies)
               THEN /\ pc' = "canSign"
                    /\ idx' = idx + 1
                    /\ attempt' = 1
                    /\ pending' = {CanSignCall(sortedStrategies[idx + 1])}
               ELSE /\ pc' = "resolved"
                    /\ pending' = {}
                    /\ ~signingResult'.success]_vars
    /\ [][idx' >= idx]_vars
    /\ [](/\ \A c \in pending : c.method = "signPayment" => ~Declines(c.strategy)
          /\ \A i \in DOMAIN signed : ~Declines(signed[i].strategy)
          /\ (idx >= 1 /\ sortedStrategies[idx].behaviour = "declines") =>
                /\ attempt = 1
                /\ signCalls = 0
                /\ pc \in {"canSign", "resolved"})

C11_Witness ==
    /\ Len(registry) = 2
    /\ registry[1].behaviour = "declines"
    /\ registry[1].priority = 50
    /\ registry[2].behaviour = "signs"
    /\ registry[2].priority = 10
    /\ order = <<"A", "B">>
    /\ via = "signing"
    /\ ret.success
    /\ ret.strategy = "B"

AggregateError ==
    "All " \o ToString(Len(sortedStrategies)) \o " signing strategies failed after "
    \o ToString(config.maxRetries) \o " attempts each"

\* performAutoSigning has produced the aggregate failure
AggregateProduced == signingResult = Failure(AggregateError)

\* signPayment was called on the strategy in every one of maxRetries attempts
SignedEveryAttempt(name) ==
    \/ config.maxRetries = 0
    \/ /\ name \in DOMAIN failedOnly
       /\ failedOnly[name] = config.maxRetries

ReachedRegistry ==
    /\ Called
    /\ processConfig.enabled
    /\ call.user # NoUser
    /\ ~RequirementsThrow(call.toolCall.payment.network)
    /\ pc # "getStrategies"

\* C13: enabled, a user, a requirement that builds and an empty strategy
\* list: the call returns {success: false, error: "No signing strategies
\* available"} without entering the retry loop, whatever maxRetries and
\* fallbackBehavior are.
C13_NoStrategiesAvailable ==
    (ReachedRegistry /\ registry = <<>>) =>
        /\ status = "returned"
        /\ ret = Failure("No signing strategies available")
        /\ via = "signing"
        /\ NoStrategyWork
        /\ pending = {}
        /\ idx = 0
        /\ attempt = 0
        /\ consulted = 1
        /\ built = 1

C13_Witness ==
    /\ ReachedRegistry
    /\ registry = <<>>
    /\ config.maxRetries = 0
    /\ config.fallbackBehavior = "fail"
    /\ ret = Failure("No signing strategies available")
    /\ timer = "fired"

\* the classes of this runtime mode whose constructor works
Available ==
    { registry[i].name : i \in { j \in DOMAIN registry :
                                   registry[j].testOnly = isTest /\ registry[j].constructs } }

Names(strategies) == { strategies[i].name : i \in DOMAIN strategies }

\* C14: a strategy whose constructor throws is left out of the list inside
\* getSigningStrategies, which never throws itself: the call goes on with
\* the strategies that could be constructed, or returns "No signing
\* strategies available" when none could, and never takes the exception
\* fallback path for it.
C14_ConstructionFailureIsContained ==
    ReachedRegistry =>
        /\ pc # "rejected"
        /\ status # "rejected"
        /\ via # "exception"
        /\ Names(sortedStrategies) = Available
        /\ Len(sortedStrategies) = Cardinality(Available)
        /\ { order[i] : i \in DOMAIN order } \subseteq Available
        /\ Available = {} =>
              /\ ret = Failure("No signing strategies available")
              /\ via = "signing"
              /\ NoStrategyWork

C14_Witness ==
    /\ ReachedRegistry
    /\ ~isTest
    /\ Len(registry) = 3
    /\ ~registry[2].constructs
    /\ registry[3].constructs
    /\ order = <<"C">>
    /\ ret.success
    /\ ret.strategy = "C"

\* the classes the registry knows for the test mode, and the others
TestingStrategies == { registry[i].name : i \in { j \in DOMAIN registry : registry[j].testOnly } }

ProductionStrategies == Names(registry) \ TestingStrategies

\* the names of the strategies canSign or signPayment has been called on
Invoked ==
    { order[i] : i \in DOMAIN order } \cup { c.strategy : c \in pending }
        \cup { signed[i].strategy : i \in DOMAIN signed }

\* C15 as stated: the list depends on the runtime mode only: in test mode
\* it contains the testing strategy and never a production strategy, in
\* normal mode the production strategies and never the testing strategy;
\* in test mode no production strategy is invoked.
C15_ModeAloneDecidesTheList ==
    ReachedRegistry =>
        /\ Names(sortedStrategies) =
              (IF isTest THEN TestingStrategies ELSE ProductionStrategies)
        /\ isTest => Invoked \cap ProductionStrategies = {}

\* C15 amended: in test mode the list holds nothing but the testing
\* strategy, and holds it unless its constructor threw; in normal mode it
\* holds nothing but production strategies, each unless its constructor
\* threw; in test mode no canSign or signPayment of a production strategy is
\* invoked, in normal mode none of the testing strategy.
C15_ModeSeparatesTheStrategies ==
    ReachedRegistry =>
        /\ Names(sortedStrategies) \subseteq
              (IF isTest THEN TestingStrategies ELSE ProductionStrategies)
        /\ \A i \in DOMAIN registry :
              registry[i].constructs =>
                 (registry[i].name \in Names(sortedStrategies)
                     <=> (registry[i].testOnly <=> isTest))
        /\ \A i \in DOMAIN registry :
              ~registry[i].constructs => registry[i].name \notin Names(sortedStrategies)
        /\ Invoked \subseteq Names(sortedStrategies)
        /\ isTest => Invoked \cap ProductionStrategies = {}
        /\ ~isTest => Invoked \cap TestingStrategies = {}
        /\ (ret.success /\ isTest) => ret.strategy \in TestingStrategies

C15_Witness ==
    /\ ReachedRegistry
    /\ isTest
    /\ Len(registry) = MaxStrategies
    /\ \A i \in DOMAIN registry : registry[i].constructs
    /\ order = <<"A">>
    /\ ret.success
    /\ ret.strategy = "A"
    /\ pending = {}

\* the SigningContext of a call is the one built from that call's arguments
OwnSigningContext(l) ==
    \/ l.context = NoContext /\ l.pending = {}
    \/ /\ l.context.toolCall = l.call.toolCall
       /\ l.context.user = l.call.user
       /\ Len(l.context.paymentRequirements) = 1
       /\ l.context.paymentRequirements[1].payTo \in
             {l.call.toolCall.payment.payTo, l.call.toolCall.payment.asset}
       /\ l.config = processConfig

\* C16: two orchestration calls that run concurrently are independent:
\* under every interleaving of their suspension points a step of one call
\* changes nothing of the other call, each call's strategies are invoked
\* with the SigningContext built from its own arguments, and nothing the
\* calls share (the policy, the runtime mode, the strategy classes) is ever
\* written.
C16_CallsAreIndependent ==
    /\ [](OwnSigningContext(Locals) /\ OwnSigningContext(other))
    /\ [][\/ other' = other
          \/ other' = Locals /\ Locals' = other]_vars
    /\ [][UNCHANGED moduleVars]_vars

C16_Witness ==
    /\ status = "returned"
    /\ other.status = "returned"
    /\ call.toolCall # other.call.toolCall
    /\ context # NoContext
    /\ other.context # NoContext
    /\ context.paymentRequirements # other.context.paymentRequirements
    /\ ret.success
    /\ other.via = "timeout"
    /\ other.pc = "signPayment"

\* C17: with auto-signing enabled and a finite timeoutMs every call of
\* attemptAutoSign eventually returns a result, even when a strategy's
\* canSign or signPayment never settles: the timer is armed before the
\* signing sequence starts and its expiry alone ends the call.
C17_EveryCallReturns ==
    /\ (Called /\ processConfig.enabled) ~> (status = "returned")
    /\ [](status = "racing" => timer = "armed")
    /\ [](pc \in {"canSign", "signPayment", "backoff"} => timer # "unset")

C17_Witness ==
    /\ status = "returned"
    /\ via = "timeout"
    /\ pc = "canSign"
    /\ idx = 1
    /\ attempt = 1
    /\ pending = {CanSignCall(sortedStrategies[1])}

\* attemptAutoSign has returned its timeout failure
TimedOut == status = "returned" /\ via = "timeout"

\* C18: once attemptAutoSign has returned a timeout failure, no new canSign
\* or signPayment call is started for that orchestration call, and no
\* further retry or next-strategy step.
C18_TimeoutAbandonsTheCall ==
    [][TimedOut =>
          /\ pending' \subseteq pending
          /\ signCalls' = signCalls
          /\ idx' = idx
          /\ attempt' = attempt
          /\ (pc' = "backoff" => pc = "backoff")]_vars

\* C19: the strategy calls of one orchestration call are strictly
\* sequential: at most one canSign or signPayment call is in flight at any
\* time, it is a call on the current strategy, and the first call on the
\* next strategy begins only when the last call on the current one has
\* settled (with nothing of it left pending) or its loop has been left.
C19_StrictlySequential ==
    /\ [](/\ Cardinality(pending) <= 1
          /\ pending # {} =>
                /\ pc \in {"canSign", "signPayment"}
                /\ pending = {[strategy |-> sortedStrategies[idx].name, method |-> pc]}
          /\ pc \in {"canSign", "signPayment"} => pending # {}
          /\ Len(order) = idx
          /\ \A i \in DOMAIN order : order[i] = sortedStrategies[i].name)
    /\ [][idx' # idx =>
             /\ idx' = idx + 1
             /\ pc' = "canSign"
             /\ attempt' = 1
             /\ pending' = {CanSignCall(sortedStrategies'[idx'])}
             /\ idx >= 1 => pc \in {"canSign", "signPayment", "backoff"}]_vars

C19_Witness ==
    /\ idx = 2
    /\ pc = "signPayment"
    /\ attempt = 2
    /\ pending = {[strategy |-> sortedStrategies[2].name, method |-> "signPayment"]}
    /\ config.maxRetries = MaxRetriesBound
    /\ order[1] \in DOMAIN failedOnly
    /\ failedOnly[order[1]] = MaxRetriesBound
    /\ timer = "armed"

\* what one failed attempt leads to, whatever made it fail: a backoff sleep
\* of 1000 * attempt ms before the next attempt on the same strategy, or,
\* after attempt maxRetries, the next strategy or the aggregate failure
AttemptUsedUp ==
    IF attempt < config.maxRetries
    THEN /\ pc' = "backoff"
         /\ backoffMs' = 1000 * attempt
         /\ idx' = idx
         /\ attempt' = attempt
         /\ pending' = {}
         /\ UNCHANGED <<order, signingResult, outerVars>>
    ELSE IF idx < Len(sortedStrategies)
         THEN /\ pc' = "canSign"
              /\ idx' = idx + 1
              /\ attempt' = 1
              /\ backoffMs' = 0
              /\ UNCHANGED <<signingResult, outerVars>>
         ELSE /\ pc' = "resolved"
              /\ signingResult' = Failure(AggregateError)
              /\ IF status = "racing"
                 THEN status' = "returned" /\ ret' = Failure(AggregateError)
                 ELSE UNCHANGED outerVars

\* C20: a thrown error is treated exactly like a returned failure: a
\* signPayment that throws leads to the very state a signPayment returning
\* {success: false} leads to, and a canSign that throws uses up the attempt
\* in the same way: same attempt count, same backoff sleep, same progression
\* to the next strategy, same final result.
C20_ThrowIsFailure ==
    /\ [][\A r \in FailureResults :
             SignPaymentAnswered(Returns(r)) <=> SignPaymentAnswered(Throws)]_vars
    /\ [][(\/ CanSignAnswered("throws")
           \/ SignPaymentAnswered(Throws)
           \/ \E r \in FailureResults : SignPaymentAnswered(Returns(r)))
             => AttemptUsedUp]_vars

C20_Witness ==
    /\ pc = "backoff"
    /\ ~clean
    /\ signCalls = 0
    /\ attempt = 1
    /\ backoffMs = 1000
    /\ idx = 2

\* both runs are over, were made with the same arguments under policies that
\* differ in fallbackBehavior at most, and neither took the top-level error
\* path
TwinRuns ==
    /\ CallOver
    /\ other.status = "returned"
    /\ call = other.call
    /\ [config EXCEPT !.fallbackBehavior = other.config.fallbackBehavior] = other.config
    /\ via \in {"disabled", "signing"}
    /\ other.via \in {"disabled", "signing"}

\* C21: fallbackBehavior bears on the result on the top-level error path
\* only: two runs that differ in fallbackBehavior alone, neither of them
\* timing out or failing outside the retry loop, make the same strategy
\* calls in the same order and return the same result.
C21_FallbackBehaviorIsInert ==
    TwinRuns =>
        /\ ret = other.ret
        /\ signingResult = other.signingResult
        /\ sortedStrategies = other.sortedStrategies
        /\ order = other.order
        /\ idx = other.idx
        /\ attempt = other.attempt
        /\ signCalls = other.signCalls
        /\ failedOnly = other.failedOnly
        /\ signed = other.signed
        /\ built = other.built
        /\ consulted = other.consulted

C21_Witness ==
    /\ TwinRuns
    /\ config.fallbackBehavior = "fail"
    /\ other.config.fallbackBehavior = "log_only"
    /\ config.maxRetries = MaxRetriesBound
    /\ Len(sortedStrategies) = 2
    /\ ret = Failure(AggregateError)
    /\ DOMAIN failedOnly = {"A", "B"}


\* C22: the policy is read once per call: every decision of the call,
\* the logging verbosity included, uses the values read at line 90 even
\* when getConfig() changes while the call is suspended.  Stated for the
\* verbosity: the level each log line of the call is compared with is the
\* level of the call's own snapshot.
C22_PolicyIsReadOncePerCall ==
    (Called /\ logThreshold # Absent) => logThreshold = config.logging.level


\* a signPayment call starts in this step
SignPaymentStarts == pc' = "signPayment" /\ pc # "signPayment"

\* an attempt on a strategy starts in this step
AttemptStarts == pc' \notin {"resolved", "rejected"} /\ <<idx, attempt>>' # <<idx, attempt>>

\* C23: canSign is asked again at the start of every attempt: an attempt
\* starts with a canSign call; every signPayment call follows at once a
\* canSign call of the same attempt on the same strategy with the same
\* context that returned true; and when canSign returns false on an
\* attempt after the first, the strategy is left at once (no sleep, no
\* further attempt on it) having had fewer than maxRetries signPayment
\* calls.
C23_CanSignGuardsEveryAttempt ==
    [][ /\ AttemptStarts => pc' = "canSign"
        /\ SignPaymentStarts =>
              /\ CanSignAnswered("true")
              /\ <<idx, attempt, sortedStrategies, context>>' =
                    <<idx, attempt, sortedStrategies, context>>
              /\ signCalls' = signCalls + 1
        /\ (CanSignAnswered("false") /\ attempt > 1) =>
              /\ signCalls < config.maxRetries
              /\ pc' # "backoff"
              /\ \/ pc' = "resolved" /\ signCalls' = signCalls
                 \/ pc' = "canSign" /\ idx' = idx + 1 /\ attempt' = 1
      ]_vars

\* the only strategy signed once without success and did not sign on its
\* second attempt, the last the policy allows
C23_Witness ==
    /\ pc = "resolved"
    /\ config.maxRetries = 2
    /\ Len(sortedStrategies) = 1
    /\ attempt = 2
    /\ signCalls = 1
    /\ ret = Failure(AggregateError)


\* C24: whenever attemptAutoSign has returned success = false, no
\* signPayment call of that call has returned success = true, the calls
\* that were in flight or started after an overall timeout included.
C24_FailureMeansNothingSigned ==
    (status = "returned" /\ ~ret.success) => signed = <<>>


\* C25: at most one signPayment call of a call returns success = true,
\* the work that goes on after a timeout included: once a signPayment has
\* succeeded performAutoSigning has returned that result and calls no
\* strategy again.
C25_AtMostOneSignature ==
    /\ Len(signed) <= 1
    /\ signed # <<>> =>
          /\ pc = "resolved"
          /\ signingResult = AnnotateResult(signed[1].result, sortedStrategies[idx])
          /\ signed[1].strategy = order[Len(order)]

\* the one signature of the call was made after attemptAutoSign had
\* returned on timeout, by the second strategy
C25_Witness ==
    /\ via = "timeout"
    /\ Len(signed) = 1
    /\ signed[1].strategy = "B"
    /\ Len(order) = 2


\* the payee the call's payment names: payTo when present and non-empty,
\* the asset otherwise
Payee(payment) == IF NonEmpty(payment.payTo) THEN payment.payTo ELSE payment.asset

\* C26: the payee of the payment requirement is payment.payTo when that is
\* present and non-empty and payment.asset otherwise; the requirement is
\* built exactly once per call, before the registry is consulted; and the
\* context holding it is the one every canSign and signPayment call of the
\* call receives: it is not rebuilt or changed once built.
C26_OneRequirementPerCall ==
    /\ [](/\ built <= 1
          /\ consulted >= 1 => built = 1
          /\ pc \in {"getStrategies", "canSign", "signPayment", "backoff"} =>
                /\ built = 1
                /\ Len(context.paymentRequirements) = 1
                /\ context.paymentRequirements[1].payTo = Payee(call.toolCall.payment)
                /\ context.toolCall = call.toolCall
                /\ context.user = call.user)
    /\ [][context # NoContext => context' = context]_vars

\* strategies are being called for a payment whose payTo is the empty
\* string, with a requirement that pays the asset address
C26_Witness ==
    /\ pc = "signPayment"
    /\ attempt = 2
    /\ call.toolCall.payment.payTo = ""
    /\ context.paymentRequirements[1].payTo = "0xASSET"
    /\ built = 1
    /\ consulted = 1


\* C27: with maxRetries <= 0 and a non-empty strategy list the body of
\* the retry loop never runs: no canSign and no signPayment call is made
\* on any strategy, and attemptAutoSign returns the aggregate failure
\* "All N signing strategies failed after maxRetries attempts each".
C27_NoAttemptStillAggregate ==
    (Called /\ config.maxRetries <= 0) =>
        /\ NoStrategyWork
        /\ pc \notin {"canSign", "signPayment", "backoff"}
        /\ (consulted = 1 /\ Len(sortedStrategies) > 0) =>
              /\ pc = "resolved"
              /\ status = "returned"
              /\ via = "signing"
              /\ ret = Failure(AggregateError)

\* two strategies and a retry bound of -1: the aggregate failure is
\* returned with no strategy called
C27_Witness ==
    /\ status = "returned"
    /\ config.maxRetries = -1
    /\ Len(sortedStrategies) = 2
    /\ order = <<>>
    /\ ret = Failure("All 2 signing strategies failed after -1 attempts each")


\* the user's wallet records with isPrimary = true
PrimaryWalletsOf(rows, userId) == { i \in WalletsOf(rows, userId) : rows[i].isPrimary }

\* C28: after any sequence of addWalletToUser, setPrimaryWallet and
\* removeWallet transactions, run one at a time from a user without
\* wallets, the user has at most one wallet record with isPrimary = true.
C28_AtMostOnePrimaryWallet ==
    \A userId \in WalletUsers :
        Cardinality(PrimaryWalletsOf(userWallets, userId)) <= 1


\* the identity of every wallet record, which no transaction changes
Identities(rows) == [i \in DOMAIN rows |-> <<rows[i].userId, rows[i].walletAddress>>]

\* the original wording of C29: with at most one active wallet removeWallet
\* throws "Cannot remove the last wallet from a user", whatever wallet id
\* it is given
C29_LastWalletErrorWhenever ==
    [][ \A userId \in WalletUsers, walletId \in 1..MaxWallets :
          (/\ removeWallet(userId, walletId)
           /\ Cardinality(ActiveWalletsOf(userWallets, userId)) <= 1) =>
              /\ dbResult'.error = "Cannot remove the last wallet from a user"
              /\ userWallets' = userWallets
      ]_vars

\* C29: removeWallet never removes a user's last wallet.  Called with a
\* wallet id that is no record of the user it throws "Wallet not found or
\* doesn't belong to user"; called with a record of a user who has at
\* most one active wallet it throws "Cannot remove the last wallet from a
\* user"; either way every record stays as it was.  Otherwise the record
\* is kept, marked inactive and non-primary, no other record changes its
\* isActive, and if the record was primary the most recently created
\* remaining active wallet of the user is primary afterwards.  A user
\* with an active wallet still has one after any removeWallet.
C29_RemoveWalletKeepsOneActive ==
    [][ \A userId \in WalletUsers, walletId \in 1..MaxWallets :
          removeWallet(userId, walletId) =>
            /\ Identities(userWallets') = Identities(userWallets)
            /\ \A u \in WalletUsers :
                  ActiveWalletsOf(userWallets, u) # {} =>
                      ActiveWalletsOf(userWallets', u) # {}
            /\ IF walletId \notin WalletsOf(userWallets, userId)
               THEN /\ dbResult'.error = "Wallet not found or doesn't belong to user"
                    /\ userWallets' = userWallets
               ELSE IF Cardinality(ActiveWalletsOf(userWallets, userId)) <= 1
               THEN /\ dbResult'.error = "Cannot remove the last wallet from a user"
                    /\ userWallets' = userWallets
               ELSE /\ dbResult'.error = Absent
                    /\ ~userWallets'[walletId].isActive
                    /\ ~userWallets'[walletId].isPrimary
                    /\ \A i \in DOMAIN userWallets \ {walletId} :
                          userWallets'[i].isActive = userWallets[i].isActive
                    /\ userWallets[walletId].isPrimary =>
                          \E i \in ActiveWalletsOf(userWallets', userId) :
                              /\ userWallets'[i].isPrimary
                              /\ \A j \in ActiveWalletsOf(userWallets', userId) : j <= i
      ]_vars

\* the third of user-1's three wallets was primary and has been removed:
\* the second, the latest of the two that remain, is primary now
C29_Witness ==
    /\ dbResult = Outcome("removeWallet", Absent)
    /\ Len(userWallets) = 3
    /\ WalletsOf(userWallets, "user-1") = {1, 2, 3}
    /\ ActiveWalletsOf(userWallets, "user-1") = {1, 2}
    /\ PrimaryWalletsOf(userWallets, "user-1") = {2}


\* C30: when updateToolWithNewPricing commits on a tool that had at most
\* one active pricing record, the tool has exactly one active pricing
\* record, the newly created one, and the record that was active is kept
\* and marked inactive, every other record staying as it was; when a step
\* throws (the tool does not exist, or the insert yields no record) the
\* tool and the pricing records are left unchanged.
C30_OneActivePricingAfterUpdate ==
    [][ \A toolId \in ToolIdArguments, toolStatus \in ToolStatuses,
           priceRaw \in PriceRaws, inserted \in BOOLEAN :
          updateToolWithNewPricing(toolId, toolStatus, priceRaw, inserted) =>
            /\ dbResult'.error # Absent <=> (toolId \notin ToolIds \/ ~inserted)
            /\ dbResult'.error # Absent =>
                  /\ mcpTools' = mcpTools
                  /\ toolPricing' = toolPricing
            /\ (/\ dbResult'.error = Absent
                /\ Cardinality(ActivePricingOf(toolPricing, toolId)) <= 1) =>
                  /\ Len(toolPricing') = Len(toolPricing) + 1
                  /\ ActivePricingOf(toolPricing', toolId) = {Len(toolPricing')}
                  /\ toolPricing'[Len(toolPricing')].priceRaw = priceRaw
                  /\ \A i \in DOMAIN toolPricing :
                        toolPricing'[i] =
                            IF i \in ActivePricingOf(toolPricing, toolId)
                            THEN [toolPricing[i] EXCEPT !.active = FALSE]
                            ELSE toolPricing[i]
      ]_vars

\* tool-1's price was replaced: its first record is inactive, the new one
\* is its only active record, and the other tool's record is untouched
C30_Witness ==
    /\ dbResult = Outcome("updateToolWithNewPricing", Absent)
    /\ mcpTools["tool-1"].status = "disabled"
    /\ toolPricing =
          << [toolId |-> "tool-1", priceRaw |-> "100000", active |-> FALSE],
             [toolId |-> "tool-2", priceRaw |-> "100000", active |-> TRUE],
             [toolId |-> "tool-1", priceRaw |-> "250000", active |-> TRUE] >>

====
